---- MODULE Spec2Model ----
(***************************************************************************)
(* A model of deep_learning/image_classification/utils.py: the JSON file   *)
(* helpers, the channel-layout conversions, the "explain" transform pair,  *)
(* the model assembler, the class weights, the optimizer factory, the     *)
(* learning-rate scheduler factory, the augmentation pipelines, the logger *)
(* factory and CreateImgSubclasses.  Every group of operations has its own *)
(* specification (SpecJson, SpecTensor, ...) over its own variables; the   *)
(* variables of the other groups stay at their idle values.                *)
(***************************************************************************)
EXTENDS Integers, Sequences, FiniteSets, TLC

VARIABLES
    file,       \* the JSON document stored at file_path, or NoFile
    loaded,     \* what the last load_json_file call returned (Unset before)
    jlog,       \* the last call that wrote file_path: its name and argument
    appends,    \* the dictionaries appended since file_path did not exist
    fresh,      \* TRUE while file_path was written by appends only
    image,      \* the image tensor the caller holds
    cur,        \* the tensor after the layout conversions applied so far
    ops,        \* the layout conversions applied to image, in order
    eimage,     \* the pixel image given to the "explain" transform
    transformed,\* transform(eimage), Unset before the call
    inverted,   \* inv_transform(transformed), Unset before the call
    sargs,      \* args of get_lr_scheduler
    optimizer,  \* the optimizer's parameter group: lr and initial_lr
    warmup_lr,  \* the LinearLR scheduler, Unset before it is constructed
    scheduler,  \* the StepLR or CosineAnnealingLR scheduler, Unset before
    lr_scheduler, \* what get_lr_scheduler returned: a SequentialLR or None
    governs,    \* the scheduler that last set the optimizer's lr
    margs,      \* model_name (the backbone it names), num_classes, dropout
    pretrained, \* the backbone as timm.create_model returned it, Unset before
    model,      \* what get_model returned, Unset before
    updates,    \* the number of optimizer updates applied to model
    dataset,    \* data_loader.dataset: its classes and its targets
    class_weights, \* [tensor |-> what get_class_weights returned], Unset before
    oargs,      \* args and params of get_optimizer
    oresult,    \* what get_optimizer returned, Unset before
    aargs,      \* args of get_data_augmentation
    augs,        \* what get_data_augmentation returned: train and val, Unset before
    loggers, \*      logging's registry: the logger registered under each name
    lcalls, \*       the arguments of the get_logger calls so far, in order
    lastlog, \*      the last message logged and the lines it wrote, Unset before
    fsys, \*        img_src, img_dest and the entries of the root and of the img_src directory
    copied \*      what copy_img_to_dirs did: class_names, the copies, the error; Unset before

jsonVars == <<file, loaded, jlog, appends, fresh>>
tensorVars == <<image, cur, ops>>
explainVars == <<eimage, transformed, inverted>>
schedVars == <<sargs, optimizer, warmup_lr, scheduler, lr_scheduler, governs>>
modelVars == <<margs, pretrained, model, updates>>
weightVars == <<dataset, class_weights>>
optVars == <<oargs, oresult>>
augVars == <<aargs, augs>>
logVars == <<loggers, lcalls, lastlog>>
imgVars == <<fsys, copied>>

vars == <<jsonVars, tensorVars, explainVars, schedVars, modelVars, weightVars, optVars, augVars, logVars, imgVars>>

notJson == <<tensorVars, explainVars, schedVars, modelVars, weightVars, optVars, augVars, logVars, imgVars>>
notTensor == <<jsonVars, explainVars, schedVars, modelVars, weightVars, optVars, augVars, logVars, imgVars>>
notExplain == <<jsonVars, tensorVars, schedVars, modelVars, weightVars, optVars, augVars, logVars, imgVars>>
notSched == <<jsonVars, tensorVars, explainVars, modelVars, weightVars, optVars, augVars, logVars, imgVars>>
notModel == <<jsonVars, tensorVars, explainVars, schedVars, weightVars, optVars, augVars, logVars, imgVars>>
notWeight == <<jsonVars, tensorVars, explainVars, schedVars, modelVars, optVars, augVars, logVars, imgVars>>
notOpt == <<jsonVars, tensorVars, explainVars, schedVars, modelVars, weightVars, augVars, logVars, imgVars>>
notAug == <<jsonVars, tensorVars, explainVars, schedVars, modelVars, weightVars, optVars, logVars, imgVars>>
notLog == <<jsonVars, tensorVars, explainVars, schedVars, modelVars, weightVars, optVars, augVars, imgVars>>
notImg == <<jsonVars, tensorVars, explainVars, schedVars, modelVars, weightVars, optVars, augVars, logVars>>

(***************************************************************************)
(* Python values and JSON documents.                                       *)
(*   Python:  [int |-> n]   [str |-> s]   [list |-> <<v, ...>>]            *)
(*            [dict |-> << <<key, value>>, ... >>]  (insertion order,      *)
(*            keys unique, a key is [int |-> n] or [str |-> s])            *)
(*   JSON:    [num |-> n]   [string |-> s]   [array |-> <<j, ...>>]        *)
(*            [object |-> << <<name, j>>, ... >>]  (members as written:    *)
(*            names are strings and may repeat)                            *)
(***************************************************************************)
Digit == <<"0", "1", "2", "3", "4", "5", "6", "7", "8", "9">>

\* str(n) for a non-negative int, as json.dump writes a non-string key.
RECURSIVE IntToStr(_)
IntToStr(n) ==
    IF n < 10 THEN Digit[n + 1] ELSE IntToStr(n \div 10) \o Digit[(n % 10) + 1]

IsInt(v) == "int" \in DOMAIN v
IsStr(v) == "str" \in DOMAIN v
IsList(v) == "list" \in DOMAIN v
IsDict(v) == "dict" \in DOMAIN v

\* json.dump's key coercion: a str key is written as it is, an int key as str(key).
KeyStr(k) == IF IsStr(k) THEN k.str ELSE IntToStr(k.int)

\* json.dump(dict_obj, file, indent=4): the document written (indentation is layout only).
RECURSIVE JsonDump(_)
JsonDump(v) ==
    IF IsInt(v) THEN [num |-> v.int]
    ELSE IF IsStr(v) THEN [string |-> v.str]
    ELSE IF IsList(v) THEN [array |-> [i \in DOMAIN v.list |-> JsonDump(v.list[i])]]
    ELSE [object |-> [i \in DOMAIN v.dict |->
                        <<KeyStr(v.dict[i][1]), JsonDump(v.dict[i][2])>>]]

\* d[k] = v on a dict's items: an existing key keeps its position.
DictSet(items, k, v) ==
    IF \E i \in DOMAIN items : items[i][1] = k
    THEN [i \in DOMAIN items |-> IF items[i][1] = k THEN <<k, v>> ELSE items[i]]
    ELSE Append(items, <<k, v>>)

\* dict.update(new): new's items are set in order.
RECURSIVE DictUpdate(_, _)
DictUpdate(items, new) ==
    IF new = <<>> THEN items
    ELSE DictUpdate(DictSet(items, Head(new)[1], Head(new)[2]), Tail(new))

\* json.load(file): an object becomes a dict with str keys, a repeated name keeps
\* its last value.
RECURSIVE JsonLoad(_)
JsonLoad(j) ==
    IF "num" \in DOMAIN j THEN [int |-> j.num]
    ELSE IF "string" \in DOMAIN j THEN [str |-> j.string]
    ELSE IF "array" \in DOMAIN j THEN [list |-> [i \in DOMAIN j.array |-> JsonLoad(j.array[i])]]
    ELSE [dict |-> DictUpdate(<<>>,
                     [i \in DOMAIN j.object |->
                        <<[str |-> j.object[i][1]], JsonLoad(j.object[i][2])>>])]

NoFile == [absent |-> TRUE]
Unset == [unset |-> TRUE]
FileNotFoundError == [raised |-> "FileNotFoundError"]
EmptyDict == [dict |-> <<>>]

PyInt(n) == [int |-> n]
PyStr(s) == [str |-> s]
PyDict(items) == [dict |-> items]

\* The dictionaries the callers pass: flat and nested ones, str and int keys.
InputDicts ==
    { EmptyDict,
      PyDict(<< <<PyStr("a"), PyInt(1)>> >>),
      PyDict(<< <<PyStr("b"), PyInt(2)>> >>),
      PyDict(<< <<PyStr("a"), PyInt(3)>> >>),
      PyDict(<< <<PyStr("a"), [list |-> <<PyInt(1), PyStr("x")>>]>>,
                <<PyStr("c"), PyDict(<< <<PyStr("k"), PyInt(1)>> >>)>> >>),
      PyDict(<< <<PyInt(1), PyInt(1)>> >>),
      PyDict(<< <<PyStr("1"), PyInt(2)>> >>),
      PyDict(<< <<PyStr("b"), PyDict(<< <<PyInt(7), PyInt(1)>> >>)>> >>) }

MaxAppends == 3

JsonIdle ==
    /\ file = NoFile
    /\ loaded = Unset
    /\ jlog = Unset
    /\ appends = <<>>
    /\ fresh = TRUE

TensorIdle ==
    /\ image = Unset
    /\ cur = Unset
    /\ ops = <<>>

ExplainIdle ==
    /\ eimage = Unset
    /\ transformed = Unset
    /\ inverted = Unset

SchedIdle ==
    /\ sargs = Unset
    /\ optimizer = Unset
    /\ warmup_lr = Unset
    /\ scheduler = Unset
    /\ lr_scheduler = Unset
    /\ governs = "none"

ModelIdle ==
    /\ margs = Unset
    /\ pretrained = Unset
    /\ model = Unset
    /\ updates = 0

WeightIdle ==
    /\ dataset = Unset
    /\ class_weights = Unset

OptIdle ==
    /\ oargs = Unset
    /\ oresult = Unset

AugIdle ==
    /\ aargs = Unset
    /\ augs = Unset

LogIdle ==
    /\ loggers = <<>>
    /\ lcalls = <<>>
    /\ lastlog = Unset

ImgIdle ==
    /\ fsys = Unset
    /\ copied = Unset

JsonStart ==
    /\ file = NoFile
    /\ loaded = Unset
    /\ jlog = [op |-> "none", arg |-> Unset, prev |-> NoFile]
    /\ appends = <<>>
    /\ fresh = TRUE

\* load_json_file(file_path): open(file_path, "r") raises FileNotFoundError.
LoadJsonFileResult(f) == IF f = NoFile THEN FileNotFoundError ELSE JsonLoad(f)

LoadJsonFile ==
    /\ loaded' = LoadJsonFileResult(file)
    /\ UNCHANGED <<file, jlog, appends, fresh>>
    /\ UNCHANGED notJson

\* An append that forgets what the file held.
AppendedDataNoMerge(f, new_dict) == new_dict

\* append_dict_to_json_file(new_dict, file_path): the data written back.
AppendedData(f, new_dict) ==
    LET data == IF LoadJsonFileResult(f) = FileNotFoundError THEN EmptyDict
                ELSE LoadJsonFileResult(f)
    IN  PyDict(DictUpdate(data.dict, new_dict.dict))

AppendDictToJsonFile(new_dict) ==
    /\ Len(appends) < MaxAppends
    /\ file' = JsonDump(AppendedData(file, new_dict))
    /\ loaded' = Unset
    /\ jlog' = [op |-> "append", arg |-> new_dict, prev |-> file]
    /\ appends' = IF fresh THEN Append(appends, new_dict) ELSE appends
    /\ UNCHANGED fresh
    /\ UNCHANGED notJson

\* A write that keeps what the file held: open(file_path, "r+") and a merge.
WrittenDocumentMerged(f, dict_obj) == JsonDump(AppendedData(f, dict_obj))

\* write_json_file(dict_obj, file_path): open(file_path, "w") truncates, then json.dump.
WrittenDocument(f, dict_obj) == JsonDump(dict_obj)

WriteJsonFile(dict_obj) ==
    /\ file' = WrittenDocument(file, dict_obj)
    /\ loaded' = Unset
    /\ jlog' = [op |-> "write", arg |-> dict_obj, prev |-> file]
    /\ appends' = <<>>
    /\ fresh' = FALSE
    /\ UNCHANGED notJson

JsonNext ==
    \/ LoadJsonFile
    \/ \E d \in InputDicts : WriteJsonFile(d)
    \/ \E d \in InputDicts : AppendDictToJsonFile(d)

JsonInit == JsonStart /\ TensorIdle /\ ExplainIdle /\ SchedIdle /\ ModelIdle /\ WeightIdle /\ OptIdle /\ AugIdle /\ LogIdle /\ ImgIdle

SpecJson == JsonInit /\ [][JsonNext]_vars

\* A dict's items as a mapping from its keys.
AsMap(items) ==
    [k \in {items[i][1] : i \in DOMAIN items} |->
        items[CHOOSE i \in DOMAIN items : items[i][1] = k][2]]

\* The shallow right-biased merge of d1..dn: a key maps to the value of the last
\* dictionary that holds it.
RECURSIVE RightBiasedMerge(_)
RightBiasedMerge(ds) ==
    IF ds = <<>> THEN AsMap(<<>>)
    ELSE LET m == RightBiasedMerge(SubSeq(ds, 1, Len(ds) - 1))
             l == AsMap(ds[Len(ds)].dict)
         IN  [k \in DOMAIN m \cup DOMAIN l |-> IF k \in DOMAIN l THEN l[k] ELSE m[k]]

\* A value json.load can return: every dict key, at every depth, is a str.
RECURSIVE IsJsonNative(_)
IsJsonNative(v) ==
    IF IsInt(v) \/ IsStr(v) THEN TRUE
    ELSE IF IsList(v) THEN \A i \in DOMAIN v.list : IsJsonNative(v.list[i])
    ELSE \A i \in DOMAIN v.dict : IsStr(v.dict[i][1]) /\ IsJsonNative(v.dict[i][2])

LoadedIsMergeOfAppends ==
    /\ file # NoFile
    /\ loaded # Unset => IsDict(loaded) /\ AsMap(loaded.dict) = RightBiasedMerge(appends)

\* C1 as stated: after appends d1..dn to a path that did not exist, the file exists
\* and load_json_file returns the right-biased merge of d1..dn, for any dictionaries.
C1_AnyDictMerge ==
    (fresh /\ Len(appends) >= 1) => LoadedIsMergeOfAppends

\* C1 amended: the same, for dictionaries whose keys are strings at every depth.
C1_StrKeyedMerge ==
    (fresh /\ Len(appends) >= 1 /\ \A i \in DOMAIN appends : IsJsonNative(appends[i]))
        => LoadedIsMergeOfAppends

\* {a:1}, {b:2}, {a:3} appended to a fresh path and loaded: {a:3, b:2}.
C1_Witness ==
    /\ fresh
    /\ appends = << PyDict(<< <<PyStr("a"), PyInt(1)>> >>),
                    PyDict(<< <<PyStr("b"), PyInt(2)>> >>),
                    PyDict(<< <<PyStr("a"), PyInt(3)>> >>) >>
    /\ loaded = PyDict(<< <<PyStr("a"), PyInt(3)>>, <<PyStr("b"), PyInt(2)>> >>)

\* C8 as stated: write_json_file(v, path) then load_json_file(path) returns v, with
\* the same keys, key types and values, for any dictionary v.
C8_AnyDictRoundTrip ==
    (jlog.op = "write" /\ loaded # Unset) => loaded = jlog.arg

\* C8 amended: the round trip returns v when every key of v, at every depth, is a
\* string; what the file held before has no influence.
C8_StrKeyedRoundTrip ==
    (jlog.op = "write" /\ loaded # Unset /\ IsJsonNative(jlog.arg)) => loaded = jlog.arg

\* A nested dictionary written over a different earlier content and read back.
C8_Witness ==
    /\ jlog.op = "write"
    /\ jlog.prev \notin {NoFile, file}
    /\ \E i \in DOMAIN jlog.arg.dict : IsDict(jlog.arg.dict[i][2])
    /\ loaded = jlog.arg

(***************************************************************************)
(* Image tensors and the channel-layout conversions.                       *)
(* A tensor is [shape |-> <<d1, ..., dn>>, data |-> [index |-> value]],    *)
(* an index being a 0-based position <<i1, ..., in>> with ik < dk.         *)
(***************************************************************************)
Channels == 3
MaxDim == 3
MaxOps == 2

Dim(t) == Len(t.shape)

Indices(shape) ==
    LET widest == CHOOSE d \in {shape[k] : k \in DOMAIN shape} :
                      \A k \in DOMAIN shape : shape[k] <= d
    IN  {idx \in [1..Len(shape) -> 0..(widest - 1)] :
            \A k \in 1..Len(shape) : idx[k] < shape[k]}

\* The row-major position of idx: the value the input tensor holds there.
RECURSIVE RowMajor(_, _)
RowMajor(shape, idx) ==
    IF shape = <<>> THEN 0
    ELSE LET n == Len(shape)
         IN  RowMajor(SubSeq(shape, 1, n - 1), SubSeq(idx, 1, n - 1)) * shape[n] + idx[n]

Tensor(shape) == [shape |-> shape, data |-> [idx \in Indices(shape) |-> RowMajor(shape, idx)]]

\* torch.Tensor.permute(*dims), dims 0-based: axis k of the result is axis dims[k]
\* of t.
Permute(t, dims) ==
    LET n == Len(dims)
        shape == [k \in 1..n |-> t.shape[dims[k] + 1]]
        src(idx) == [j \in 1..n |-> idx[CHOOSE k \in 1..n : dims[k] = j - 1]]
    IN  [shape |-> shape, data |-> [idx \in Indices(shape) |-> t.data[src(idx)]]]

\* convert_to_channels_first(image)
ConvertToChannelsFirst(t) ==
    IF Dim(t) = 4
    THEN IF t.shape[2] = Channels THEN t ELSE Permute(t, <<0, 3, 1, 2>>)
    ELSE IF Dim(t) = 3
    THEN IF t.shape[1] = Channels THEN t ELSE Permute(t, <<2, 0, 1>>)
    ELSE t

\* A channels-last conversion that permutes whatever the last axis holds.
ConvertToChannelsLastAlways(t) ==
    IF Dim(t) = 4 THEN Permute(t, <<0, 2, 3, 1>>)
    ELSE IF Dim(t) = 3 THEN Permute(t, <<1, 2, 0>>)
    ELSE t

\* convert_to_channels_last(image)
ConvertToChannelsLast(t) ==
    IF Dim(t) = 4
    THEN IF t.shape[4] = Channels THEN t ELSE Permute(t, <<0, 2, 3, 1>>)
    ELSE IF Dim(t) = 3
    THEN IF t.shape[3] = Channels THEN t ELSE Permute(t, <<1, 2, 0>>)
    ELSE t

InputTensors ==
    {Tensor(shape) : shape \in UNION {[1..r -> 1..MaxDim] : r \in 2..4}}

TensorStart ==
    /\ image \in InputTensors
    /\ cur = image
    /\ ops = <<>>

ConvertToChannelsFirstCall ==
    /\ Len(ops) < MaxOps
    /\ cur' = ConvertToChannelsFirst(cur)
    /\ ops' = Append(ops, "first")
    /\ UNCHANGED image
    /\ UNCHANGED notTensor

ConvertToChannelsLastCall ==
    /\ Len(ops) < MaxOps
    /\ cur' = ConvertToChannelsLast(cur)
    /\ ops' = Append(ops, "last")
    /\ UNCHANGED image
    /\ UNCHANGED notTensor

TensorNext ==
    \/ ConvertToChannelsFirstCall
    \/ ConvertToChannelsLastCall

TensorInit == TensorStart /\ JsonIdle /\ ExplainIdle /\ SchedIdle /\ ModelIdle /\ WeightIdle /\ OptIdle /\ AugIdle /\ LogIdle /\ ImgIdle

SpecTensor == TensorInit /\ [][TensorNext]_vars

\* The three image axes of a 3-D or 4-D shape (a 4-D shape leads with the batch).
ImageAxes(shape) == SubSeq(shape, Len(shape) - 2, Len(shape))

\* C2 as stated: channels-first then channels-last returns the original shape and
\* values of any 3-D or 4-D tensor, whichever axis has size 3.
C2_RoundTripAnyLayout ==
    (ops = <<"first", "last">> /\ Dim(image) \in {3, 4}) => cur = image

\* C2 amended: channels-first then channels-last returns the original tensor exactly
\* when, of its three image axes, the first and the last both have size 3 or neither
\* the first nor the second has size 3 (so for H x W x 3 input with H, W # 3, and not
\* for 3 x H x W input with W # 3, which comes back as H x W x 3).
C2_RoundTripCondition ==
    (ops = <<"first", "last">> /\ Dim(image) \in {3, 4}) =>
        LET a == ImageAxes(image.shape)
        IN  (cur = image) <=>
                \/ a[1] = Channels /\ a[3] = Channels
                \/ a[1] # Channels /\ a[2] # Channels

\* A channel-last 2 x 2 x 3 image that went through both conversions, each of them
\* a permutation, and came back.
C2_Witness ==
    /\ ops = <<"first", "last">>
    /\ image.shape = <<2, 2, Channels>>
    /\ ConvertToChannelsFirst(image).shape = <<Channels, 2, 2>>
    /\ cur = image

(***************************************************************************)
(* Exact rational arithmetic: a number is <<numerator, denominator>> in    *)
(* lowest terms with a positive denominator.  It stands for the floating-  *)
(* point arithmetic of the code up to rounding.                            *)
(***************************************************************************)
Abs(n) == IF n < 0 THEN -n ELSE n

RECURSIVE GCD(_, _)
GCD(a, b) == IF b = 0 THEN a ELSE GCD(b, a % b)

Rat(n, d) ==
    LET g == GCD(Abs(n), Abs(d))
        sgn == IF d < 0 THEN -1 ELSE 1
    IN  <<(sgn * n) \div g, (sgn * d) \div g>>

RatInt(n) == <<n, 1>>
RatAdd(a, b) ==
    LET l == (a[2] \div GCD(a[2], b[2])) * b[2]
    IN  Rat(a[1] * (l \div a[2]) + b[1] * (l \div b[2]), l)
RatNeg(a) == <<-a[1], a[2]>>
RatSub(a, b) == RatAdd(a, RatNeg(b))
RatMul(a, b) ==
    LET x == Rat(a[1], b[2])
        y == Rat(b[1], a[2])
    IN  Rat(x[1] * y[1], x[2] * y[2])
RatDiv(a, b) == RatMul(a, <<b[2], b[1]>>)
RatLess(a, b) == a[1] * b[2] < b[1] * a[2]

(***************************************************************************)
(* get_explain_data_aug: the transform and its inverse.                    *)
(***************************************************************************)
\* timm.data.constants.IMAGENET_DEFAULT_MEAN and IMAGENET_DEFAULT_STD, per channel.
IMAGENET_DEFAULT_MEAN == <<Rat(485, 1000), Rat(456, 1000), Rat(406, 1000)>>
IMAGENET_DEFAULT_STD == <<Rat(229, 1000), Rat(224, 1000), Rat(225, 1000)>>

PixelRange == 255
MaxSide == 3
MaxBatch == 1
MaxSeed == 5

\* The axis transforms.Normalize takes as the channel: the third from the end.
ChannelAxis(t) == Dim(t) - 2

\* transforms.Lambda(lambda image: image * (1 / 255))
Rescale(t) ==
    [shape |-> t.shape,
     data |-> [idx \in DOMAIN t.data |-> RatMul(t.data[idx], Rat(1, PixelRange))]]

\* transforms.Normalize(mean, std): (x - mean[c]) / std[c] on channel c.
Normalize(t, mean, std) ==
    [shape |-> t.shape,
     data |-> [idx \in DOMAIN t.data |->
                 LET c == idx[ChannelAxis(t)] + 1
                 IN  RatDiv(RatSub(t.data[idx], mean[c]), std[c])]]

\* An inverse mean that is not divided by the std.
InvMeanNotScaled == [c \in 1..Channels |-> RatNeg(IMAGENET_DEFAULT_MEAN[c])]

\* (-1 * np.array(IMAGENET_DEFAULT_MEAN) / np.array(IMAGENET_DEFAULT_STD)).tolist()
InvMean ==
    [c \in 1..Channels |-> RatDiv(RatNeg(IMAGENET_DEFAULT_MEAN[c]), IMAGENET_DEFAULT_STD[c])]

\* (1 / np.array(IMAGENET_DEFAULT_STD)).tolist()
InvStd == [c \in 1..Channels |-> RatDiv(RatInt(1), IMAGENET_DEFAULT_STD[c])]

\* transform of get_explain_data_aug
Transform(t) ==
    ConvertToChannelsLast(
        Normalize(Rescale(ConvertToChannelsFirst(t)),
                  IMAGENET_DEFAULT_MEAN, IMAGENET_DEFAULT_STD))

\* inv_transform of get_explain_data_aug
InvTransform(t) ==
    ConvertToChannelsLast(Normalize(ConvertToChannelsFirst(t), InvMean, InvStd))

\* Integer pixel values, the extremes of the range among them.
PixelValues == <<0, 1, 127, 128, PixelRange - 1, PixelRange>>

PixelImage(shape, seed) ==
    [shape |-> shape,
     data |-> [idx \in Indices(shape) |->
                 RatInt(PixelValues[((seed + RowMajor(shape, idx)) % Len(PixelValues)) + 1])]]

\* H x W x 3 and 3 x H x W images, alone or in a batch.
ImageShapes ==
    LET hw == (1..MaxSide) \X (1..MaxSide)
        single == {<<p[1], p[2], Channels>> : p \in hw} \cup {<<Channels, p[1], p[2]>> : p \in hw}
    IN  single \cup {<<n>> \o sh : n \in 1..MaxBatch, sh \in single}

ExplainStart ==
    /\ eimage \in {PixelImage(shape, seed) : shape \in ImageShapes, seed \in 0..MaxSeed}
    /\ transformed = Unset
    /\ inverted = Unset

TransformCall ==
    /\ transformed = Unset
    /\ transformed' = Transform(eimage)
    /\ UNCHANGED <<eimage, inverted>>
    /\ UNCHANGED notExplain

InvTransformCall ==
    /\ transformed # Unset
    /\ inverted = Unset
    /\ inverted' = InvTransform(transformed)
    /\ UNCHANGED <<eimage, transformed>>
    /\ UNCHANGED notExplain

ExplainNext ==
    \/ TransformCall
    \/ InvTransformCall

ExplainInit == ExplainStart /\ JsonIdle /\ TensorIdle /\ SchedIdle /\ ModelIdle /\ WeightIdle /\ OptIdle /\ AugIdle /\ LogIdle /\ ImgIdle

SpecExplain == ExplainInit /\ [][ExplainNext]_vars

\* Exactly one of the three image axes has size 3: the height and the width of the
\* image cannot be taken for its channels.
OneChannelAxis(t) ==
    Cardinality({k \in (Dim(t) - 2)..Dim(t) : t.shape[k] = Channels}) = 1

MaxWarmup == 2
MaxStepSize == 2
MaxEpochs == 5

NoneValue == [none |-> TRUE]

Lr(a) == [amp |-> a, t |-> 0]

RECURSIVE RatPow(_, _)
RatPow(a, n) == IF n = 0 THEN RatInt(1) ELSE RatMul(a, RatPow(a, n - 1))

\* LinearLR.get_lr with end_factor = 1.0, from the group's current lr.
LinearLRGetLr(lr, last_epoch, start_factor, total_iters) ==
    IF last_epoch = 0 THEN Lr(RatMul(lr.amp, start_factor))
    ELSE IF last_epoch > total_iters THEN lr
    ELSE LET d == RatSub(RatInt(1), start_factor)
             den == RatAdd(RatMul(RatInt(total_iters), start_factor),
                           RatMul(RatInt(last_epoch - 1), d))
         IN  Lr(RatMul(lr.amp, RatAdd(RatInt(1), RatDiv(d, den))))

\* StepLR.get_lr, from the group's current lr.
StepLRGetLr(lr, last_epoch, step_size, gamma) ==
    IF last_epoch = 0 \/ last_epoch % step_size # 0 THEN lr
    ELSE Lr(RatMul(lr.amp, gamma))

\* StepLR._get_closed_form_lr, from the base lr: what step(0) sets.
StepLRClosedForm(base_lr, last_epoch, step_size, gamma) ==
    Lr(RatMul(base_lr, RatPow(gamma, last_epoch \div step_size)))

\* CosineAnnealingLR.get_lr, from the group's current lr: the same amplitude, one
\* step further on the cosine.
CosineGetLr(lr, last_epoch, T_max) ==
    IF last_epoch = 0 THEN lr ELSE [amp |-> lr.amp, t |-> last_epoch % (2 * T_max)]

\* CosineAnnealingLR._get_closed_form_lr, from the base lr: what step(0) sets.
CosineClosedForm(base_lr, last_epoch, T_max) ==
    [amp |-> base_lr, t |-> last_epoch % (2 * T_max)]

\* A LinearLR that warms up one epoch longer.
TotalItersOneMore(args) == args.warmup_epochs + 1

\* optim.lr_scheduler.LinearLR(..., total_iters=args.warmup_epochs)
TotalIters(args) == args.warmup_epochs

\* A milestone one epoch late.
MilestoneOneLater(args) == args.warmup_epochs + 1

\* optim.lr_scheduler.SequentialLR(..., milestones=[args.warmup_epochs])
Milestone(args) == args.warmup_epochs

\* T_max=args.epochs - args.warmup_epochs
TMax(args) == args.epochs - args.warmup_epochs

\* The main scheduler's get_lr.
MainGetLr(args, lr, last_epoch) ==
    IF args.sched_name = "step" THEN StepLRGetLr(lr, last_epoch, args.step_size, args.gamma)
    ELSE CosineGetLr(lr, last_epoch, TMax(args))

\* The main scheduler's closed form.
MainClosedForm(args, base_lr, last_epoch) ==
    IF args.sched_name = "step"
    THEN StepLRClosedForm(base_lr, last_epoch, args.step_size, args.gamma)
    ELSE CosineClosedForm(base_lr, last_epoch, TMax(args))

SchedArgs ==
    [sched_name : {"step", "cosine", "plateau"},
     lr : {Rat(1, 10)},
     warmup_decay : {Rat(1, 100), Rat(1, 2)},
     warmup_epochs : 0..MaxWarmup,
     step_size : 1..MaxStepSize,
     gamma : {Rat(1, 10)},
     epochs : {MaxEpochs},
     eta_min : {RatInt(0)}]

\* The optimizer as get_optimizer built it: lr = args.lr, no scheduler attached.
SchedStart ==
    /\ sargs \in SchedArgs
    /\ optimizer = [lr |-> Lr(sargs.lr), initial_lr |-> Unset]
    /\ warmup_lr = Unset
    /\ scheduler = Unset
    /\ lr_scheduler = Unset
    /\ governs = "none"

\* get_lr_scheduler(args, optimizer)
GetLrScheduler ==
    /\ lr_scheduler = Unset
    /\ LET \* LinearLR.__init__: initial_lr defaults to lr, then the initial step
           initial_lr == IF optimizer.initial_lr = Unset THEN optimizer.lr.amp
                         ELSE optimizer.initial_lr
           lr1 == LinearLRGetLr(optimizer.lr, 0, sargs.warmup_decay, TotalIters(sargs))
           \* StepLR / CosineAnnealingLR.__init__: the initial step (last_epoch = 0)
           \* leaves lr as it is.  SequentialLR.__init__: lr back to initial_lr, the
           \* schedulers' steps undone, then the initial step of the first one alone
           lr3 == LinearLRGetLr(Lr(initial_lr), 0, sargs.warmup_decay, TotalIters(sargs))
       IN  IF sargs.sched_name \in {"step", "cosine"}
           THEN /\ optimizer' = [lr |-> lr3, initial_lr |-> initial_lr]
                /\ warmup_lr' = [last_epoch |-> 0, base_lr |-> initial_lr]
                /\ scheduler' = [last_epoch |-> -1, base_lr |-> initial_lr]
                /\ lr_scheduler' = [last_epoch |-> 0, milestone |-> Milestone(sargs)]
                /\ governs' = "warmup"
           ELSE /\ optimizer' = [lr |-> lr1, initial_lr |-> initial_lr]
                /\ warmup_lr' = [last_epoch |-> 0, base_lr |-> initial_lr]
                /\ scheduler' = Unset
                /\ lr_scheduler' = NoneValue
                /\ governs' = "warmup"
    /\ UNCHANGED sargs
    /\ UNCHANGED notSched

IsSequentialLR(s) == "milestone" \in DOMAIN s

\* lr_scheduler.step(): SequentialLR.step, once per epoch.
SchedulerStep ==
    /\ IsSequentialLR(lr_scheduler)
    /\ lr_scheduler.last_epoch < sargs.epochs
    /\ LET last_epoch == lr_scheduler.last_epoch + 1
           \* bisect_right(milestones, last_epoch)
           idx == IF lr_scheduler.milestone <= last_epoch THEN 1 ELSE 0
       IN  /\ lr_scheduler' = [lr_scheduler EXCEPT !.last_epoch = last_epoch]
           /\ IF idx = 0
              THEN \* warmup_lr.step()
                   /\ warmup_lr' = [warmup_lr EXCEPT !.last_epoch = @ + 1]
                   /\ optimizer' = [optimizer EXCEPT !.lr =
                          LinearLRGetLr(@, warmup_lr.last_epoch + 1,
                                        sargs.warmup_decay, TotalIters(sargs))]
                   /\ governs' = "warmup"
                   /\ UNCHANGED scheduler
              ELSE IF lr_scheduler.milestone = last_epoch
              THEN \* scheduler.step(0): the closed form at last_epoch = 0
                   /\ scheduler' = [scheduler EXCEPT !.last_epoch = 0]
                   /\ optimizer' = [optimizer EXCEPT !.lr =
                          MainClosedForm(sargs, scheduler.base_lr, 0)]
                   /\ governs' = "main"
                   /\ UNCHANGED warmup_lr
              ELSE \* scheduler.step()
                   /\ scheduler' = [scheduler EXCEPT !.last_epoch = @ + 1]
                   /\ optimizer' = [optimizer EXCEPT !.lr =
                          MainGetLr(sargs, @, scheduler.last_epoch + 1)]
                   /\ governs' = "main"
                   /\ UNCHANGED warmup_lr
    /\ UNCHANGED sargs
    /\ UNCHANGED notSched

SchedNext ==
    \/ GetLrScheduler
    \/ SchedulerStep

SchedInit == SchedStart /\ JsonIdle /\ TensorIdle /\ ExplainIdle /\ ModelIdle /\ WeightIdle /\ OptIdle /\ AugIdle /\ LogIdle /\ ImgIdle

SpecSched == SchedInit /\ [][SchedNext]_vars

\* The learning rate the specification gives a "step" schedule at epoch e: linear
\* from warmup_decay x base_lr at epoch 0 to base_lr at epoch W, then base_lr x
\* gamma^floor((e - W) / step_size).
ExpectedStepLr(args, e) ==
    LET W == args.warmup_epochs
    IN  IF e < W
        THEN RatMul(args.lr,
                    RatAdd(args.warmup_decay,
                           RatMul(RatSub(RatInt(1), args.warmup_decay), Rat(e, W))))
        ELSE RatMul(args.lr, RatPow(args.gamma, (e - W) \div args.step_size))

\* C4: with sched_name = "step" and warmup_epochs = W >= 1, the learning rate at epoch
\* 0 is warmup_decay x base_lr, it rises linearly over epochs 0..W, at epoch W it is
\* base_lr, and at every epoch e >= W it is base_lr x gamma^floor((e - W) / step_size).
C4_StepScheduleValues ==
    (IsSequentialLR(lr_scheduler) /\ sargs.sched_name = "step" /\ sargs.warmup_epochs >= 1)
        => optimizer.lr = Lr(ExpectedStepLr(sargs, lr_scheduler.last_epoch))

\* Warmup over two epochs from 1/2, then one decay by gamma: epoch 3 of a schedule
\* with step_size 1 holds base_lr x gamma.
C4_Witness ==
    /\ IsSequentialLR(lr_scheduler)
    /\ sargs.sched_name = "step"
    /\ sargs.warmup_epochs = 2
    /\ sargs.step_size = 1
    /\ lr_scheduler.last_epoch = 3
    /\ optimizer.lr = Lr(RatMul(sargs.lr, sargs.gamma))

\* The learning rate of a schedule whose main phase starts at epoch W: the linear
\* warmup value before W, the main scheduler's own value at its epoch e - W from W on.
PhaseLr(args, e) ==
    LET W == args.warmup_epochs
    IN  IF e < W
        THEN Lr(RatMul(args.lr,
                       RatAdd(args.warmup_decay,
                              RatMul(RatSub(RatInt(1), args.warmup_decay), Rat(e, W)))))
        ELSE MainClosedForm(args, args.lr, e - W)

\* C5: with sched_name "step" or "cosine" the warmup phase governs the learning rate
\* for exactly the epochs before warmup_epochs and the main phase for every epoch
\* from warmup_epochs on.
C5_PhaseBoundary ==
    IsSequentialLR(lr_scheduler) =>
        /\ governs = "warmup" <=> lr_scheduler.last_epoch < sargs.warmup_epochs
        /\ governs = "main" <=> lr_scheduler.last_epoch >= sargs.warmup_epochs
        /\ optimizer.lr = PhaseLr(sargs, lr_scheduler.last_epoch)

\* C5, the part that holds for every warmup_epochs: once the main phase has set the
\* learning rate the warmup phase never sets it again, and the step counter only
\* increases.
C5_NoReentry ==
    [][/\ governs = "main" => governs' = "main"
       /\ IsSequentialLR(lr_scheduler) => lr_scheduler'.last_epoch >= lr_scheduler.last_epoch]_vars

\* C5 for warmup_epochs >= 1: the phases meet at warmup_epochs.
C5_PhaseBoundaryWithWarmup ==
    sargs.warmup_epochs >= 1 => C5_PhaseBoundary

\* C13: when sched_name is neither "step" nor "cosine", get_lr_scheduler returns None
\* and leaves the optimizer as it was before the call: the learning rate of the
\* parameter group is the one the optimizer was built with.
C13_UnknownNameLeavesOptimizer ==
    (lr_scheduler # Unset /\ sargs.sched_name \notin {"step", "cosine"}) =>
        /\ lr_scheduler = NoneValue
        /\ optimizer.lr = Lr(sargs.lr)

\* C13, the part that holds: an unknown sched_name returns None, and after None no
\* scheduler step changes the optimizer again.
C13_UnknownNameReturnsNone ==
    (lr_scheduler # Unset /\ sargs.sched_name \notin {"step", "cosine"}) =>
        /\ lr_scheduler = NoneValue
        /\ ~ ENABLED SchedulerStep

\* C13, what the call does to the optimizer instead: the LinearLR constructed before
\* the name is looked at has taken its initial step.
C13_UnknownNameScalesLr ==
    (lr_scheduler # Unset /\ sargs.sched_name \notin {"step", "cosine"}) =>
        optimizer.lr = Lr(RatMul(sargs.lr, sargs.warmup_decay))

(***************************************************************************)
(* get_model: the backbone, freeze_params, the head replacement, and the   *)
(* optimizer updates of the parameters get_trainable_params returns.       *)
(* A module is a record: [kind |-> "Linear", in_features, out_features,    *)
(* bias], [kind |-> "ClassifierHead", fc |-> a Linear] (with a norm layer  *)
(* of its own), [kind |-> "NormLinear", linear |-> a Linear],              *)
(* [kind |-> "Sequential", layers |-> <<...>>], [kind |-> "Dropout", p].   *)
(* A model is [modules |-> its attributes by name, params |-> each         *)
(* parameter's requires_grad and value by its name].                       *)
(***************************************************************************)
MaxFeatures == 2
MaxClasses == 3
MaxUpdates == 2

Linear(in_features, out_features, bias) ==
    [kind |-> "Linear", in_features |-> in_features, out_features |-> out_features,
     bias |-> bias]

\* A head without a bias.
CreateLinearHeadNoBias(num_ftrs, num_classes, dropout) ==
    [kind |-> "Sequential",
     layers |-> <<[kind |-> "Dropout", p |-> dropout],
                  Linear(num_ftrs, num_classes, FALSE)>>]

\* create_linear_head(num_ftrs, num_classes, dropout)
CreateLinearHead(num_ftrs, num_classes, dropout) ==
    [kind |-> "Sequential",
     layers |-> <<[kind |-> "Dropout", p |-> dropout],
                  Linear(num_ftrs, num_classes, TRUE)>>]

\* The names of the parameters of module m held at attribute path.
RECURSIVE ParamNames(_, _)
ParamNames(path, m) ==
    IF m.kind = "Linear"
    THEN {path \o ".weight"} \cup (IF m.bias THEN {path \o ".bias"} ELSE {})
    ELSE IF m.kind = "ClassifierHead"
    THEN {path \o ".norm.weight"} \cup ParamNames(path \o ".fc", m.fc)
    ELSE IF m.kind = "NormLinear"
    THEN {path \o ".bn.weight"} \cup ParamNames(path \o ".linear", m.linear)
    ELSE IF m.kind = "Sequential"
    THEN UNION {ParamNames(path \o "." \o IntToStr(i - 1), m.layers[i]) : i \in DOMAIN m.layers}
    ELSE IF m.kind = "Backbone" THEN {path \o ".weight"}
    ELSE {}

\* model.parameters(), by name.
ModelParamNames(modules) == UNION {ParamNames(a, modules[a]) : a \in DOMAIN modules}

\* The pretrained heads of timm's models, 1000 ImageNet classes wide.
PretrainedClasses == 1000

\* timm.create_model(model_name, pretrained=True, ...): the layouts of the registry.
\* Every parameter arrives trainable, with its pretrained value.
TimmCreateModel(backbone) ==
    LET fc == Linear(backbone.num_features, PretrainedClasses, TRUE)
        feats == [kind |-> "Backbone"]
        head == IF backbone.layout = "direct" THEN fc
                ELSE IF backbone.layout = "nested" THEN [kind |-> "ClassifierHead", fc |-> fc]
                ELSE [kind |-> "NormLinear", linear |-> fc]
        plain == IF backbone.layout = "fc" THEN [blocks |-> feats, fc |-> fc]
                 ELSE [blocks |-> feats, head |-> head]
        modules == IF backbone.distilled
                   THEN [a \in DOMAIN plain \cup {"head_dist"} |->
                            IF a = "head_dist" THEN fc ELSE plain[a]]
                   ELSE plain
    IN  [modules |-> modules,
         params |-> [n \in ModelParamNames(modules) |-> [requires_grad |-> TRUE, value |-> 1]]]

\* A freeze that leaves every parameter as it is.
FreezeNothing(params) == params

\* freeze_params(model)
FreezeParams(params) == [n \in DOMAIN params |-> [params[n] EXCEPT !.requires_grad = FALSE]]

\* setattr of a module: the parameters of the old module leave the model, those of
\* the new one join it, newly initialised and trainable.
WithModules(m, modules) ==
    [modules |-> modules,
     params |-> [n \in ModelParamNames(modules) |->
                   IF n \in DOMAIN m.params THEN m.params[n]
                   ELSE [requires_grad |-> TRUE, value |-> 0]]]

HasAttr(obj, name) == name \in DOMAIN obj

AttributeError == [raised |-> "AttributeError"]

\* get_model(model_name, num_classes, dropout), after timm.create_model returned m0.
\* model.to(memory_format=torch.channels_last) changes no module and no parameter.
GetModelFrom(m0, num_classes, dropout) ==
    LET m == [m0 EXCEPT !.params = FreezeParams(m0.params)]
    IN  IF ~HasAttr(m.modules, "head") THEN AttributeError
        ELSE IF HasAttr(m.modules.head, "in_features")
        THEN LET num_ftrs == m.modules.head.in_features
                 m1 == WithModules(m, [m.modules EXCEPT
                          !.head = CreateLinearHead(num_ftrs, num_classes, dropout)])
             IN  IF HasAttr(m1.modules, "head_dist")
                 THEN WithModules(m1, [m1.modules EXCEPT
                          !.head_dist = CreateLinearHead(num_ftrs, num_classes, dropout)])
                 ELSE m1
        ELSE IF ~HasAttr(m.modules.head, "fc") THEN AttributeError
        ELSE LET num_ftrs == m.modules.head.fc.in_features
                 m1 == WithModules(m, [m.modules EXCEPT
                          !.head.fc = CreateLinearHead(num_ftrs, num_classes, dropout)])
             IN  IF HasAttr(m1.modules, "head_dist")
                 THEN WithModules(m1, [m1.modules EXCEPT
                          !.head_dist = CreateLinearHead(num_ftrs, num_classes, dropout)])
                 ELSE m1

\* get_trainable_params(model), by name.
GetTrainableParams(m) == {n \in DOMAIN m.params : m.params[n].requires_grad}

Backbones ==
    [layout : {"direct", "nested", "normlinear", "fc"},
     distilled : BOOLEAN,
     num_features : {4 * k : k \in 1..MaxFeatures}]

ModelStart ==
    /\ margs \in [backbone : Backbones, num_classes : 1..MaxClasses, dropout : {0, 20}]
    /\ pretrained = Unset
    /\ model = Unset
    /\ updates = 0

GetModel ==
    /\ model = Unset
    /\ pretrained' = TimmCreateModel(margs.backbone)
    /\ model' = GetModelFrom(pretrained', margs.num_classes, margs.dropout)
    /\ UNCHANGED <<margs, updates>>
    /\ UNCHANGED notModel

IsModel(m) == "params" \in DOMAIN m

\* optimizer.step() of an optimizer built over get_trainable_params(model): every
\* parameter it holds moves, no other does.
OptimizerStep(delta) ==
    /\ IsModel(model)
    /\ updates < MaxUpdates
    /\ model' = [model EXCEPT !.params =
                    [n \in DOMAIN model.params |->
                        IF n \in GetTrainableParams(model)
                        THEN [model.params[n] EXCEPT !.value = @ + delta]
                        ELSE model.params[n]]]
    /\ updates' = updates + 1
    /\ UNCHANGED <<margs, pretrained>>
    /\ UNCHANGED notModel

ModelNext ==
    \/ GetModel
    \/ \E delta \in {-1, 1} : OptimizerStep(delta)

ModelInit == ModelStart /\ JsonIdle /\ TensorIdle /\ ExplainIdle /\ SchedIdle /\ WeightIdle /\ OptIdle /\ AugIdle /\ LogIdle /\ ImgIdle

SpecModel == ModelInit /\ [][ModelNext]_vars

\* The attribute paths get_model replaces, by the backbone's layout.
ReplacedPaths(m0) ==
    (IF HasAttr(m0.modules.head, "in_features") THEN {"head"} ELSE {"head.fc"})
        \cup (IF HasAttr(m0.modules, "head_dist") THEN {"head_dist"} ELSE {})

\* C6: after get_model, every parameter of the backbone that is still part of the
\* model is non-trainable and keeps its pretrained value through every optimizer
\* update, and the trainable parameters are exactly those of the new head(s).
C6_BackboneFrozen ==
    IsModel(model) =>
        /\ \A n \in DOMAIN model.params \cap DOMAIN pretrained.params :
              /\ ~model.params[n].requires_grad
              /\ model.params[n].value = pretrained.params[n].value
        /\ GetTrainableParams(model) =
              UNION {{path \o ".1.weight", path \o ".1.bias"} : path \in ReplacedPaths(pretrained)}

\* A nested-head backbone with a distillation head, after two optimizer updates: the
\* new heads moved, the backbone and the head's norm layer did not.
C6_Witness ==
    /\ IsModel(model)
    /\ updates = MaxUpdates
    /\ margs.backbone.layout = "nested"
    /\ margs.backbone.distilled
    /\ model.params["head.fc.1.weight"].value # 0
    /\ model.params["head_dist.1.bias"].value # 0
    /\ model.params["head.norm.weight"].value = 1
    /\ model.params["blocks.weight"].value = 1

\* The head the specification asks for: dropout(rate), then a linear layer with bias
\* from in_features to num_classes.
SpecHead(in_features, num_classes, rate) ==
    [kind |-> "Sequential",
     layers |-> <<[kind |-> "Dropout", p |-> rate],
                  [kind |-> "Linear", in_features |-> in_features,
                   out_features |-> num_classes, bias |-> TRUE]>>]

\* C7: if model.head has in_features, model.head is replaced, otherwise model.head.fc;
\* the new head is dropout(rate) then a linear layer with bias, as wide as the head it
\* replaces and num_classes out; a distillation head is replaced by the same shape.
C7_HeadReplaced ==
    IsModel(model) =>
        LET old == pretrained.modules
            new == model.modules
        IN  /\ IF HasAttr(old.head, "in_features")
               THEN new.head = SpecHead(old.head.in_features, margs.num_classes, margs.dropout)
               ELSE /\ new.head.kind = old.head.kind
                    /\ new.head.fc =
                          SpecHead(old.head.fc.in_features, margs.num_classes, margs.dropout)
            /\ HasAttr(old, "head_dist") =>
                  new.head_dist =
                      (IF HasAttr(old.head, "in_features") THEN new.head ELSE new.head.fc)
            /\ DOMAIN new = DOMAIN old
            /\ new.blocks = old.blocks

\* Both layouts with a distillation head were assembled.
C7_Witness ==
    /\ IsModel(model)
    /\ margs.backbone.layout = "nested"
    /\ margs.backbone.distilled
    /\ margs.num_classes = MaxClasses
    /\ model.modules.head.fc.layers[2].in_features = margs.backbone.num_features
    /\ model.modules.head_dist.layers[2].out_features = MaxClasses
    /\ pretrained.modules.head_dist.out_features = PretrainedClasses

(***************************************************************************)
(* get_class_weights.  A weight is a rational; <<1, 0>> stands for the inf *)
(* numpy gives a division by a zero count.                                 *)
(***************************************************************************)
MaxTargets == 4

Inf == <<1, 0>>

\* np.bincount(targets), without minlength: one count per value 0..max(targets), and
\* no count at all for empty targets.
BinCount(targets) ==
    LET top == IF targets = <<>> THEN -1
               ELSE CHOOSE m \in {targets[k] : k \in DOMAIN targets} :
                        \A k \in DOMAIN targets : targets[k] <= m
    IN  [i \in 1..(top + 1) |-> Cardinality({k \in DOMAIN targets : targets[k] = i - 1})]

\* len(targets) / (len(data_loader.dataset.classes) * class_counts), elementwise
GetClassWeightsOf(ds) ==
    LET class_counts == BinCount(ds.targets)
    IN  [i \in DOMAIN class_counts |->
            IF class_counts[i] = 0 THEN Inf
            ELSE Rat(Len(ds.targets), ds.num_classes * class_counts[i])]

RECURSIVE SeqsUpTo(_, _)
SeqsUpTo(S, n) ==
    IF n = 0 THEN {<<>>}
    ELSE LET shorter == SeqsUpTo(S, n - 1)
         IN  shorter \cup {Append(q, x) : q \in shorter, x \in S}

\* A dataset of C classes whose targets are class indices 0..C-1.
WeightStart ==
    /\ dataset \in UNION {[num_classes : {c}, targets : SeqsUpTo(0..(c - 1), MaxTargets)] :
                            c \in 1..MaxClasses}
    /\ class_weights = Unset

GetClassWeights ==
    /\ class_weights = Unset
    /\ class_weights' = [tensor |-> GetClassWeightsOf(dataset)]
    /\ UNCHANGED dataset
    /\ UNCHANGED notWeight

WeightNext == GetClassWeights

WeightInit == WeightStart /\ JsonIdle /\ TensorIdle /\ ExplainIdle /\ SchedIdle /\ ModelIdle /\ OptIdle /\ AugIdle /\ LogIdle /\ ImgIdle

SpecWeight == WeightInit /\ [][WeightNext]_vars

CountOf(ds, class) == Cardinality({k \in DOMAIN ds.targets : ds.targets[k] = class})

\* C9: get_class_weights returns exactly C weights, one per class index, the weight of
\* class i being N / (C x count_i), also when a class, in particular the highest-
\* indexed one, has no sample in targets.
C9_OneWeightPerClass ==
    (class_weights # Unset /\ Len(dataset.targets) >= 1) =>
        /\ Len(class_weights.tensor) = dataset.num_classes
        /\ \A i \in 0..(dataset.num_classes - 1) :
              CountOf(dataset, i) > 0 =>
                  class_weights.tensor[i + 1] =
                      Rat(Len(dataset.targets), dataset.num_classes * CountOf(dataset, i))

\* C9 where every class has a sample: one weight per class, N / (C x count_i).
C9_WeightsWhenAllClassesSeen ==
    (class_weights # Unset /\ \A i \in 0..(dataset.num_classes - 1) : CountOf(dataset, i) > 0)
        => C9_OneWeightPerClass

(***************************************************************************)
(* get_optimizer.                                                          *)
(***************************************************************************)
\* An SGD without momentum.
SgdMomentumZero == RatInt(0)

\* momentum=0.9
SgdMomentum == Rat(9, 10)

\* get_optimizer(args, params)
GetOptimizerOf(args, params) ==
    IF args.opt_name = "sgd"
    THEN [kind |-> "SGD", params |-> params, lr |-> args.lr, weight_decay |-> args.wd,
          momentum |-> SgdMomentum]
    ELSE IF args.opt_name = "adamw"
    THEN [kind |-> "AdamW", params |-> params, lr |-> args.lr, weight_decay |-> args.wd]
    ELSE NoneValue

\* The arguments the torch constructors accept: a non-empty parameter list, a
\* non-negative learning rate and weight decay.
OptStart ==
    /\ oargs \in [opt_name : {"sgd", "adamw", "adam", "SGD", ""},
                   lr : {Rat(1, 10), Rat(1, 1000), RatInt(0)},
                   wd : {RatInt(0), Rat(1, 10000), Rat(1, 100)},
                   params : {<<"head.1.weight", "head.1.bias">>,
                             <<"head.fc.1.weight", "head.fc.1.bias">>,
                             <<"head.1.weight", "head.1.bias",
                               "head_dist.1.weight", "head_dist.1.bias">>}]
    /\ oresult = Unset

GetOptimizer ==
    /\ oresult = Unset
    /\ oresult' = GetOptimizerOf(oargs, oargs.params)
    /\ UNCHANGED oargs
    /\ UNCHANGED notOpt

OptNext == GetOptimizer

OptInit == OptStart /\ JsonIdle /\ TensorIdle /\ ExplainIdle /\ SchedIdle /\ ModelIdle /\ WeightIdle /\ AugIdle /\ LogIdle /\ ImgIdle

SpecOpt == OptInit /\ [][OptNext]_vars

\* C10: get_optimizer returns for "sgd" an SGD over the given params with momentum
\* 0.9, lr args.lr and weight decay args.wd, for "adamw" an AdamW with lr args.lr and
\* weight decay args.wd, and for every other opt_name None, without raising.
C10_OptimizerByName ==
    oresult # Unset =>
        IF oargs.opt_name = "sgd"
        THEN /\ oresult.kind = "SGD"
             /\ oresult.params = oargs.params
             /\ oresult.momentum = <<9, 10>>
             /\ oresult.lr = oargs.lr
             /\ oresult.weight_decay = oargs.wd
        ELSE IF oargs.opt_name = "adamw"
        THEN /\ oresult.kind = "AdamW"
             /\ oresult.params = oargs.params
             /\ oresult.lr = oargs.lr
             /\ oresult.weight_decay = oargs.wd
        ELSE oresult = NoneValue

\* Each of the three outcomes was returned: here the None of an unrecognized name
\* that differs from "sgd" by case only.
C10_Witness ==
    /\ oargs.opt_name = "SGD"
    /\ oresult = NoneValue

(***************************************************************************)
(* get_data_augmentation: the train and the validation pipeline.  A        *)
(* transform is a record [kind |-> its class name, ...its arguments], a    *)
(* pipeline (transforms.Compose) the sequence of its transforms.           *)
(***************************************************************************)
MaxCropSize == 2
MaxMagBins == 2

\* f.InterpolationMode(value): the member of the enumeration with that value.
InterpolationMode(value) ==
    CASE value = "nearest" -> [enum |-> "NEAREST"]
      [] value = "bilinear" -> [enum |-> "BILINEAR"]
      [] value = "bicubic" -> [enum |-> "BICUBIC"]

RandomResizedCrop(size, interpolation) ==
    [kind |-> "RandomResizedCrop", size |-> <<size, size>>, interpolation |-> interpolation]

RandomHorizontalFlip(p) == [kind |-> "RandomHorizontalFlip", p |-> p]

TrivialAugmentWide(num_magnitude_bins, interpolation) ==
    [kind |-> "TrivialAugmentWide", num_magnitude_bins |-> num_magnitude_bins,
     interpolation |-> interpolation]

AugMix(interpolation) == [kind |-> "AugMix", interpolation |-> interpolation]

RandAugment(num_magnitude_bins, interpolation) ==
    [kind |-> "RandAugment", num_magnitude_bins |-> num_magnitude_bins,
     interpolation |-> interpolation]

ToTensor == [kind |-> "ToTensor"]

NormalizeTransform(mean, std) == [kind |-> "Normalize", mean |-> mean, std |-> std]

Resize(size, interpolation) ==
    [kind |-> "Resize", size |-> size, interpolation |-> interpolation]

CenterCrop(size) == [kind |-> "CenterCrop", size |-> <<size, size>>]

\* A strategy step that falls back to TrivialAugmentWide for an unknown aug_type.
StrategyAugDefaultTrivial(args) ==
    CASE args.aug_type = "augmix" ->
             <<AugMix(InterpolationMode(args.interpolation))>>
      [] args.aug_type = "rand" ->
             <<RandAugment(args.mag_bins, InterpolationMode(args.interpolation))>>
      [] OTHER ->
             <<TrivialAugmentWide(args.mag_bins, InterpolationMode(args.interpolation))>>

\* The if / elif / elif on args.aug_type: what it appends to train_aug.
StrategyAug(args) ==
    CASE args.aug_type = "trivial" ->
             <<TrivialAugmentWide(args.mag_bins, InterpolationMode(args.interpolation))>>
      [] args.aug_type = "augmix" ->
             <<AugMix(InterpolationMode(args.interpolation))>>
      [] args.aug_type = "rand" ->
             <<RandAugment(args.mag_bins, InterpolationMode(args.interpolation))>>
      [] OTHER -> <<>>

\* get_data_augmentation(args): {"train": train_transform, "val": val_transform}
GetDataAugmentationOf(args) ==
    LET train_aug == <<RandomResizedCrop(args.crop_size, InterpolationMode(args.interpolation)),
                       RandomHorizontalFlip(args.hflip)>>
                     \o StrategyAug(args)
                     \o <<ToTensor, NormalizeTransform(IMAGENET_DEFAULT_MEAN, IMAGENET_DEFAULT_STD)>>
        val_aug == <<Resize(args.val_resize, InterpolationMode(args.interpolation)),
                     CenterCrop(args.crop_size),
                     ToTensor,
                     NormalizeTransform(IMAGENET_DEFAULT_MEAN, IMAGENET_DEFAULT_STD)>>
    IN  [train |-> train_aug, val |-> val_aug]

\* The strategy names of the code, names that differ from them by case or by
\* spelling, and the empty name.
AugTypes == {"trivial", "augmix", "rand", "Trivial", "randaugment", ""}

AugArgs ==
    { a \in [crop_size : 1..MaxCropSize,
             val_resize : 1..(MaxCropSize + 1),
             interpolation : {"bilinear", "bicubic"},
             hflip : {Rat(0, 1), Rat(1, 2)},
             aug_type : AugTypes,
             mag_bins : 1..MaxMagBins] :
        a.val_resize \in {a.crop_size, a.crop_size + 1} }

AugStart ==
    /\ aargs \in AugArgs
    /\ augs = Unset

GetDataAugmentation ==
    /\ augs = Unset
    /\ augs' = GetDataAugmentationOf(aargs)
    /\ UNCHANGED aargs
    /\ UNCHANGED notAug

AugNext == GetDataAugmentation

AugInit == AugStart /\ JsonIdle /\ TensorIdle /\ ExplainIdle /\ SchedIdle /\ ModelIdle /\ WeightIdle /\ OptIdle /\ LogIdle /\ ImgIdle

SpecAug == AugInit /\ [][AugNext]_vars

\* The class names of the transforms of a pipeline, in order.
Kinds(pipeline) == [i \in DOMAIN pipeline |-> pipeline[i].kind]

\* The strategy-specific step the specification names for aug_type, if any.
StrategyKind(aug_type) ==
    CASE aug_type = "trivial" -> <<"TrivialAugmentWide">>
      [] aug_type = "augmix" -> <<"AugMix">>
      [] aug_type = "rand" -> <<"RandAugment">>
      [] OTHER -> <<>>

MaxCalls == 3
DEBUG == 10
INFO == 20

LoggerNames == {"train", "eval"}
LogFiles == {"train.log"}
Levels == {DEBUG, INFO}

\* logging.FileHandler(log_file) with setLevel(level): a new handler object
FileHandler(id, log_file, level) ==
    [kind |-> "FileHandler", id |-> id, level |-> level, baseFilename |-> log_file]

\* logging.StreamHandler() with setLevel(level): a new handler object on stderr
StreamHandler(id, level) == [kind |-> "StreamHandler", id |-> id, level |-> level]

\* Logger.addHandler(hdlr): if not (hdlr in self.handlers): self.handlers.append(hdlr)
AddHandler(logger, hdlr) ==
    IF \E i \in DOMAIN logger.handlers : logger.handlers[i] = hdlr
    THEN logger
    ELSE [logger EXCEPT !.handlers = Append(@, hdlr)]

\* logging.getLogger(name): the registered logger, or a new one without handlers
GetLoggerByName(registry, name) ==
    IF name \in DOMAIN registry THEN registry[name]
    ELSE [name |-> name, level |-> 0, handlers |-> <<>>]

\* get_logger(logger_name, log_file, log_level, console_level): the logger returned.
\* ncalls numbers the two handler objects the call constructs.
GetLoggerOf(registry, ncalls, logger_name, log_file, log_level, console_level) ==
    LET logger == [GetLoggerByName(registry, logger_name) EXCEPT !.level = log_level]
        file_handler == FileHandler(2 * ncalls, log_file, log_level)
        console_handler == StreamHandler(2 * ncalls + 1, console_level)
    IN  AddHandler(AddHandler(logger, file_handler), console_handler)

\* Logger.log(level, msg): the number of lines the handlers of one class write.
\* The root logger, to which the record propagates, has no handler.
LinesWritten(logger, level, kind) ==
    IF level < logger.level THEN 0
    ELSE Cardinality({i \in DOMAIN logger.handlers :
                         /\ logger.handlers[i].kind = kind
                         /\ level >= logger.handlers[i].level})

LogStart ==
    /\ loggers = <<>>
    /\ lcalls = <<>>
    /\ lastlog = Unset

GetLogger(logger_name, log_file, log_level, console_level) ==
    /\ Len(lcalls) < MaxCalls
    /\ loggers' = (logger_name :> GetLoggerOf(loggers, Len(lcalls), logger_name, log_file,
                                              log_level, console_level)) @@ loggers
    /\ lcalls' = Append(lcalls, [logger_name |-> logger_name, log_file |-> log_file,
                                 log_level |-> log_level, console_level |-> console_level])
    /\ UNCHANGED lastlog
    /\ UNCHANGED notLog

\* logger.log(level, msg) on a logger get_logger returned
LogMessage(logger_name, level) ==
    /\ logger_name \in DOMAIN loggers
    /\ lastlog' = [logger_name |-> logger_name, level |-> level,
                   file |-> LinesWritten(loggers[logger_name], level, "FileHandler"),
                   console |-> LinesWritten(loggers[logger_name], level, "StreamHandler")]
    /\ UNCHANGED <<loggers, lcalls>>
    /\ UNCHANGED notLog

LogNext ==
    \/ \E n \in LoggerNames, f \in LogFiles, l \in Levels, c \in Levels : GetLogger(n, f, l, c)
    \/ \E n \in LoggerNames, l \in Levels : LogMessage(n, l)

LogInit == LogStart /\ JsonIdle /\ TensorIdle /\ ExplainIdle /\ SchedIdle /\ ModelIdle /\ WeightIdle /\ OptIdle /\ AugIdle /\ ImgIdle

SpecLog == LogInit /\ [][LogNext]_vars

\* The get_logger calls made with logger_name n, in order.
CallsOf(n) == SelectSeq(lcalls, LAMBDA c : c.logger_name = n)

\* Every get_logger call with logger_name n had the same arguments.
SameCalls(n) == \A i, j \in DOMAIN CallsOf(n) : CallsOf(n)[i] = CallsOf(n)[j]

\* The handlers of class kind on the logger named n.
HandlersOf(n, kind) ==
    {i \in DOMAIN loggers[n].handlers : loggers[n].handlers[i].kind = kind}

\* The logger named n carries one file handler and one console handler, with the
\* thresholds of the first get_logger call, and the last message logged on it was
\* written at most once to the file and at most once to the console.
OneHandlerEach(n) ==
    /\ Cardinality(HandlersOf(n, "FileHandler")) = 1
    /\ Cardinality(HandlersOf(n, "StreamHandler")) = 1
    /\ \A i \in HandlersOf(n, "FileHandler") :
           loggers[n].handlers[i].level = CallsOf(n)[1].log_level
    /\ \A i \in HandlersOf(n, "StreamHandler") :
           loggers[n].handlers[i].level = CallsOf(n)[1].console_level
    /\ (lastlog # Unset /\ lastlog.logger_name = n) =>
           (lastlog.file <= 1 /\ lastlog.console <= 1)

\* C14: after any number of get_logger calls with the same logger_name, log_file and
\* levels, the logger of that name carries exactly one file handler, with threshold
\* log_level, and exactly one console handler, with threshold console_level, and one
\* logged message is written at most once to the file and at most once to the console.
C14_OneHandlerEach ==
    \A n \in LoggerNames :
        (n \in DOMAIN loggers /\ SameCalls(n)) => OneHandlerEach(n)

\* C14, what holds instead: the logger carries one file handler and one console
\* handler for every get_logger call made with its name, each with the thresholds of
\* its call.
C14_OneHandlerPairPerCall ==
    \A n \in LoggerNames :
        n \in DOMAIN loggers =>
            /\ Len(loggers[n].handlers) = 2 * Len(CallsOf(n))
            /\ \A k \in DOMAIN CallsOf(n) :
                   /\ loggers[n].handlers[2 * k - 1].kind = "FileHandler"
                   /\ loggers[n].handlers[2 * k - 1].level = CallsOf(n)[k].log_level
                   /\ loggers[n].handlers[2 * k].kind = "StreamHandler"
                   /\ loggers[n].handlers[2 * k].level = CallsOf(n)[k].console_level

\* C14 for a logger_name get_logger was called with once.
C14_OneHandlerEachAfterOneCall ==
    \A n \in LoggerNames :
        (n \in DOMAIN loggers /\ Len(CallsOf(n)) = 1) => OneHandlerEach(n)

\* C14, the lines of one message: a message that every threshold admits is written
\* to the file once per get_logger call made with the logger's name, and as often to
\* the console.
C14_LinesPerCall ==
    [][(lastlog' # lastlog /\ lastlog'.level = INFO) =>
           /\ lastlog'.file = Len(CallsOf(lastlog'.logger_name))
           /\ lastlog'.console = Len(CallsOf(lastlog'.logger_name))]_vars

(***************************************************************************)
(* CreateImgSubclasses: get_image_classes and copy_img_to_dirs.  A path is *)
(* the sequence of its characters.  The file system has two directories    *)
(* with entries: the root directory "/" and the img_src directory; an      *)
(* entry is [name |-> its characters, isdir |-> whether it is a            *)
(* directory].  glob returns the entries of a directory in an order of the *)
(* file system's choosing.                                                 *)
(***************************************************************************)
MaxEntries == 3

\* [A-Za-z], over the characters the entries are spelled with
Letters == {"a", "b", "d", "j", "s", "u"}

Slash == "/"
Dot == "."
Star == "*"

\* os.path.join(a, b): an absolute b discards a
OsPathJoin(a, b) ==
    IF b # <<>> /\ b[1] = Slash THEN b
    ELSE IF a = <<>> \/ a[Len(a)] = Slash THEN a \o b
    ELSE a \o <<Slash>> \o b

\* os.path.basename(path): what follows the last slash
RECURSIVE Basename(_)
Basename(path) ==
    IF path = <<>> \/ path[Len(path)] = Slash THEN <<>>
    ELSE Append(Basename(SubSeq(path, 1, Len(path) - 1)), path[Len(path)])

\* name.split(".")[0]: what precedes the first dot
RECURSIVE SplitDotFirst(_)
SplitDotFirst(name) ==
    IF name = <<>> \/ name[1] = Dot THEN <<>>
    ELSE <<name[1]>> \o SplitDotFirst(Tail(name))

\* re.sub(r'[^A-Za-z]+', '', name)
ReSubNonLetters(name) == SelectSeq(name, LAMBDA c : c \in Letters)

\* The class name get_image_classes derives from a file.
ClassName(path) == ReSubNonLetters(SplitDotFirst(Basename(path)))

\* a in b, for strings
IsSubstring(a, b) ==
    \E i \in 0..(Len(b) - Len(a)) : SubSeq(b, i + 1, i + Len(a)) = a

\* The paths glob(pattern) matches, for a pattern <directory>/*: the entries of the
\* directory, each with the directory's path (the root's is "/") in front.
GlobMatches(fs, pattern) ==
    LET dir == SubSeq(pattern, 1, Len(pattern) - 2)
    IN  IF dir = <<>> THEN {<<Slash>> \o e.name : e \in fs.root}
        ELSE IF dir = fs.img_src THEN {dir \o <<Slash>> \o e.name : e \in fs.src}
        ELSE {}

\* The orders in which glob can return the paths of S.
Orderings(S) ==
    {ls \in [1..Cardinality(S) -> S] : \A i, j \in DOMAIN ls : ls[i] = ls[j] => i = j}

\* os.path.join(self.img_src, "/*")
GlobPattern(img_src) == OsPathJoin(img_src, <<Slash, Star>>)

\* get_image_classes, on the list ls glob returned: the loop from file_set
RECURSIVE GetImageClassesFrom(_, _)
GetImageClassesFrom(ls, file_set) ==
    IF ls = <<>> THEN file_set
    ELSE LET cls_name == ClassName(Head(ls))
         IN  GetImageClassesFrom(Tail(ls),
                 IF \E i \in DOMAIN file_set : file_set[i] = cls_name
                 THEN file_set ELSE Append(file_set, cls_name))

\* Whether path is a directory of fs: shutil.copy of a directory raises.
IsDir(fs, path) ==
    \/ \E e \in fs.root : e.isdir /\ path = <<Slash>> \o e.name
    \/ \E e \in fs.src : e.isdir /\ path = fs.img_src \o <<Slash>> \o e.name

\* The loop of copy_img_to_dirs over the files ls: the shutil.copy calls made, and the
\* error that ended the loop, if any.
RECURSIVE CopyLoop(_, _, _, _)
CopyLoop(fs, ls, class_names, copies) ==
    IF ls = <<>> THEN [copies |-> copies, error |-> "none"]
    ELSE LET path == Head(ls)
             found == {i \in DOMAIN class_names : IsSubstring(class_names[i], path)}
         IN  IF found = {} THEN CopyLoop(fs, Tail(ls), class_names, copies)
             ELSE LET first == CHOOSE i \in found : \A j \in found : i <= j
                      dst == OsPathJoin(fs.img_dest, class_names[first])
                  IN  IF IsDir(fs, path)
                      THEN [copies |-> copies, error |-> "IsADirectoryError"]
                      ELSE CopyLoop(fs, Tail(ls), class_names,
                                    Append(copies, [file |-> path, dst |-> dst]))

\* File names: class "a"; class "ab", of which "a" is a part; the empty class; class
\* "b" with an "a" after the dot.
FileEntries ==
    { [name |-> <<"a", "1", Dot, "j">>, isdir |-> FALSE],
      [name |-> <<"a", "b", "1", Dot, "j">>, isdir |-> FALSE],
      [name |-> <<"1", Dot, "j">>, isdir |-> FALSE],
      [name |-> <<"b", Dot, "a">>, isdir |-> FALSE] }

\* The root directory can hold files, and directories such as "/u".
RootEntries == FileEntries \cup {[name |-> <<"u">>, isdir |-> TRUE]}

ImgStart ==
    /\ fsys \in { fs \in [img_src : {<<"s">>}, img_dest : {<<"d">>},
                         root : SUBSET RootEntries, src : SUBSET FileEntries] :
                    /\ Cardinality(fs.root) <= MaxEntries
                    /\ Cardinality(fs.src) <= MaxEntries
                    /\ fs.src # {} }
    /\ copied = Unset

\* CreateImgSubclasses(img_src, img_dest).copy_img_to_dirs(); both glob calls list
\* the unchanged directory in the same order ls.
CopyImgToDirs ==
    /\ copied = Unset
    /\ \E ls \in Orderings(GlobMatches(fsys, GlobPattern(fsys.img_src))) :
           LET class_names == GetImageClassesFrom(ls, <<>>)
               done == CopyLoop(fsys, ls, class_names, <<>>)
           IN  copied' = [ls |-> ls, class_names |-> class_names,
                          copies |-> done.copies, error |-> done.error]
    /\ UNCHANGED fsys
    /\ UNCHANGED notImg

ImgNext == CopyImgToDirs

ImgInit == ImgStart /\ JsonIdle /\ TensorIdle /\ ExplainIdle /\ SchedIdle /\ ModelIdle /\ WeightIdle /\ OptIdle /\ AugIdle /\ LogIdle

SpecImg == ImgInit /\ [][ImgNext]_vars

\* The paths of the files of the img_src directory.
SrcFiles == {fsys.img_src \o <<Slash>> \o e.name : e \in fsys.src}

\* The elements of a sequence.
Range(seq) == {seq[i] : i \in DOMAIN seq}

\* C12: copy_img_to_dirs takes its files from the img_src directory, derives the
\* class names from those same files, each distinct name once, and copies each file
\* at most once, into the img_dest subdirectory of its own derived class, never into
\* the directory of another class whose name is a part of the file's path.
C12_CopiesFromSrcToOwnClass ==
    copied # Unset =>
        /\ Range(copied.ls) = SrcFiles
        /\ Range(copied.class_names) = {ClassName(path) : path \in SrcFiles}
        /\ \A i, j \in DOMAIN copied.class_names :
               copied.class_names[i] = copied.class_names[j] => i = j
        /\ \A k \in DOMAIN copied.copies :
               /\ copied.copies[k].file \in SrcFiles
               /\ copied.copies[k].dst =
                      OsPathJoin(fsys.img_dest, ClassName(copied.copies[k].file))
        /\ \A k, l \in DOMAIN copied.copies :
               copied.copies[k].file = copied.copies[l].file => k = l

\* C12, the source of the files: the files listed are those of the img_src directory.
C12_FilesFromImgSrc ==
    copied # Unset => Range(copied.ls) = SrcFiles

\* C12, the destination: every file copied goes to the directory of its own derived
\* class, whatever directory it was listed from.
C12_OwnClassOnly ==
    copied # Unset =>
        \A k \in DOMAIN copied.copies :
            copied.copies[k].dst =
                OsPathJoin(fsys.img_dest, ClassName(copied.copies[k].file))

\* C12, the parts that hold: the class names are those derived from the files listed,
\* each once; a file is copied at most once, to the directory of a class name that
\* is a part of its path.
C12_AtMostOnceToAFoundName ==
    copied # Unset =>
        /\ Range(copied.class_names) = {ClassName(path) : path \in Range(copied.ls)}
        /\ \A i, j \in DOMAIN copied.class_names :
               copied.class_names[i] = copied.class_names[j] => i = j
        /\ \A k, l \in DOMAIN copied.copies :
               copied.copies[k].file = copied.copies[l].file => k = l
        /\ \A k \in DOMAIN copied.copies :
               \E i \in DOMAIN copied.class_names :
                   /\ IsSubstring(copied.class_names[i], copied.copies[k].file)
                   /\ copied.copies[k].dst = OsPathJoin(fsys.img_dest, copied.class_names[i])

====
